---------------------------- MODULE Spec2Model ----------------------------
(***************************************************************************)
(* Entity-resolution pipeline of the patched agent (vendor_patches):       *)
(* query normalisation, intent classification, probable-id extraction,     *)
(* candidate rescoring, exact-line fallback and the orchestrator           *)
(* PatchedAgent.semantically_contextualize, with discuss_document.         *)
(*                                                                         *)
(* Strings are sequences of characters.  An ASCII character is the         *)
(* one-character string; the other characters carry a name:                *)
(*   "NL" newline, "eacute" U+00E9, "EN" U+2013, "EM" U+2014,              *)
(*   "BEI" U+5317.                                                         *)
(* None is the Python None where a string is expected; it is no string of  *)
(* the alphabet.                                                           *)
(***************************************************************************)
EXTENDS Integers, Sequences, FiniteSets, TLC

None == <<"None">>

(***************************************************************************)
(* Characters                                                              *)
(***************************************************************************)
UpperChars ==
  <<"A","B","C","D","E","F","G","H","I","J","K","L","M",
    "N","O","P","Q","R","S","T","U","V","W","X","Y","Z">>

LowerChars ==
  <<"a","b","c","d","e","f","g","h","i","j","k","l","m",
    "n","o","p","q","r","s","t","u","v","w","x","y","z">>

\* The characters of the model in code-point order (what sorted() compares).
Alphabet ==
  <<"NL", " ", ",", "-", ":">> \o UpperChars \o LowerChars \o
  <<"eacute", "EN", "EM", "BEI">>

CodePoint(c) == CHOOSE i \in 1..Len(Alphabet) : Alphabet[i] = c

\* str.isspace(): what strip(), split() and the regex class \s take.
IsSpace(c) == c \in {" ", "NL"}

\* A regex word character (\w): letters, here.
IsWordChar(c) ==
  \/ \E i \in 1..26 : c = UpperChars[i] \/ c = LowerChars[i]
  \/ c \in {"eacute", "BEI"}

\* str.lower() / str.casefold() of one character.
LowerChar(c) ==
  IF \E i \in 1..26 : UpperChars[i] = c
    THEN LowerChars[CHOOSE i \in 1..26 : UpperChars[i] = c]
    ELSE c

(***************************************************************************)
(* String primitives                                                       *)
(***************************************************************************)
Lower(s) == [i \in 1..Len(s) |-> LowerChar(s[i])]

RECURSIVE LStrip(_)
LStrip(s) == IF s # <<>> /\ IsSpace(Head(s)) THEN LStrip(Tail(s)) ELSE s

RECURSIVE RStrip(_)
RStrip(s) ==
  IF s # <<>> /\ IsSpace(s[Len(s)]) THEN RStrip(SubSeq(s, 1, Len(s) - 1)) ELSE s

\* str.strip()
Strip(s) == RStrip(LStrip(s))

\* str.startswith(p)
StartsWith(s, p) == Len(p) <= Len(s) /\ SubSeq(s, 1, Len(p)) = p

\* s[n:] for 0 <= n
Drop(s, n) == IF n >= Len(s) THEN <<>> ELSE SubSeq(s, n + 1, Len(s))

RECURSIVE Concat(_)
Concat(ss) == IF ss = <<>> THEN <<>> ELSE Head(ss) \o Concat(Tail(ss))

\* sep.join(parts)
RECURSIVE Join(_, _)
Join(parts, sep) ==
  IF parts = <<>> THEN <<>>
  ELSE IF Len(parts) = 1 THEN parts[1]
  ELSE parts[1] \o sep \o Join(Tail(parts), sep)

\* str.split(sep) for a non-empty separator: left to right, non-overlapping.
RECURSIVE SplitAcc(_, _, _)
SplitAcc(s, sep, cur) ==
  IF s = <<>> THEN <<cur>>
  ELSE IF StartsWith(s, sep) THEN <<cur>> \o SplitAcc(Drop(s, Len(sep)), sep, <<>>)
  ELSE SplitAcc(Tail(s), sep, Append(cur, Head(s)))

Split(s, sep) == SplitAcc(s, sep, <<>>)

\* str.split(): on runs of whitespace, no empty pieces.
RECURSIVE WordsAcc(_, _)
WordsAcc(s, cur) ==
  IF s = <<>> THEN (IF cur = <<>> THEN <<>> ELSE <<cur>>)
  ELSE IF IsSpace(Head(s))
    THEN (IF cur = <<>> THEN <<>> ELSE <<cur>>) \o WordsAcc(Tail(s), <<>>)
  ELSE WordsAcc(Tail(s), Append(cur, Head(s)))

Words(s) == WordsAcc(s, <<>>)

\* str.replace(c, r) for a one-character c
ReplaceChar(s, c, r) ==
  Concat([i \in 1..Len(s) |-> IF s[i] = c THEN r ELSE <<s[i]>>])

\* Lexicographic order of strings by code point (the order of sorted()).
RECURSIVE StrLess(_, _)
StrLess(a, b) ==
  IF b = <<>> THEN FALSE
  ELSE IF a = <<>> THEN TRUE
  ELSE IF Head(a) = Head(b) THEN StrLess(Tail(a), Tail(b))
  ELSE CodePoint(Head(a)) < CodePoint(Head(b))

\* sorted(S) for a set of strings
RECURSIVE Sorted(_)
Sorted(S) ==
  IF S = {} THEN <<>>
  ELSE LET m == CHOOSE x \in S : \A y \in S \ {x} : StrLess(x, y)
       IN  <<m>> \o Sorted(S \ {m})

Range(f) == {f[i] : i \in DOMAIN f}

(***************************************************************************)
(* helpers.py: constants                                                   *)
(***************************************************************************)
\* "pokemon" with U+00E9
PokemonAccented == <<"p","o","k","eacute","m","o","n">>

CATEGORY_TOKENS ==
  << <<"i","t","e","m">>, <<"p","o","k","e","m","o","n">>, PokemonAccented,
     <<"m","o","v","e">>, <<"m","o","v","e","s">> >>

\* In the order of the alternation of lead_pattern.
LEAD_IN_TOKENS ==
  << <<":">>, <<"-">>, <<"a","b","o","u","t">>,
     <<"i","n","f","o","r","m","a","t","i","o","n">>, <<"i","n","f","o">>,
     <<"o","n">>, <<"o","f">>, <<"t","h","e">>, <<"n","a","m","e","d">>,
     <<"c","a","l","l","e","d">> >>

KB_HEADER_SEP == <<" ", "EM", " ">>

\* Those of PUNCT_CHARS that are characters of the model.
PUNCT_CHARS == {",", ":"}

(***************************************************************************)
(* normalize_query_text                                                    *)
(***************************************************************************)
\* unicodedata.normalize("NFKC", .) of one character: every character of
\* Alphabet is its own NFKC form.
NFKCChar(c) == <<c>>

\* unidecode(.) of one character: ASCII stays; U+00E9 -> e; U+2013 -> -;
\* U+2014 -> --; U+5317 -> "Bei " (with the space).
UnidecodeChar(c) ==
  CASE c = "eacute" -> <<"e">>
    [] c = "EN"     -> <<"-">>
    [] c = "EM"     -> <<"-", "-">>
    [] c = "BEI"    -> <<"B", "e", "i", " ">>
    [] OTHER        -> <<c>>

\* unicodedata.normalize("NFKC", s)
NFKC(s) == Concat([i \in 1..Len(s) |-> NFKCChar(s[i])])

\* Variant of Unidecode: nothing is transliterated.
Unidecode_KeepAll(s) == s

\* unidecode(s)
Unidecode(s) == Concat([i \in 1..Len(s) |-> UnidecodeChar(s[i])])

\* re.sub(r"\s+", " ", s)
RECURSIVE CollapseSpaces(_)
CollapseSpaces(s) ==
  IF s = <<>> THEN <<>>
  ELSE IF IsSpace(Head(s)) THEN <<" ">> \o CollapseSpaces(LStrip(s))
  ELSE <<Head(s)>> \o CollapseSpaces(Tail(s))

NormalizedString(message) ==
  LET s0 == Strip(IF message = None THEN <<>> ELSE message)
      s1 == NFKC(s0)
      s2 == Lower(Unidecode(s1))
      s3 == ReplaceChar(ReplaceChar(s2, "EM", <<" ", "-", " ">>),
                        "EN", <<" ", "-", " ">>)
  IN  CollapseSpaces(s3)

\* [t for t in s.split(" ") if t]
NormalizedTokens(s) == SelectSeq(Split(s, <<" ">>), LAMBDA t : t # <<>>)

normalize_query_text(message) ==
  LET s == NormalizedString(message)
  IN  [normalized |-> s, tokens |-> NormalizedTokens(s)]

(***************************************************************************)
(* intent_from_tokens                                                      *)
(***************************************************************************)
RECURSIVE LStripChars(_, _)
LStripChars(s, chars) ==
  IF s # <<>> /\ Head(s) \in chars THEN LStripChars(Tail(s), chars) ELSE s

RECURSIVE RStripChars(_, _)
RStripChars(s, chars) ==
  IF s # <<>> /\ s[Len(s)] \in chars
    THEN RStripChars(SubSeq(s, 1, Len(s) - 1), chars)
    ELSE s

\* t.strip(PUNCT_CHARS)
StripPunct(t) == RStripChars(LStripChars(t, PUNCT_CHARS), PUNCT_CHARS)

\* Variant of intent_from_tokens: the tokens are not stripped of punctuation.
intent_from_tokens_Raw(msg_tokens) ==
  LET token_set == Range(msg_tokens)
      wi == CATEGORY_TOKENS[1] \in token_set
      wp == CATEGORY_TOKENS[2] \in token_set \/ CATEGORY_TOKENS[3] \in token_set
      wm == CATEGORY_TOKENS[4] \in token_set \/ CATEGORY_TOKENS[5] \in token_set
  IN  [wants_item |-> wi, wants_pokemon |-> wp, wants_move |-> wm,
       allowed |-> (IF wi THEN {"item"} ELSE {}) \cup
                   (IF wp THEN {"pokemon"} ELSE {}) \cup
                   (IF wm THEN {"move"} ELSE {})]

intent_from_tokens(msg_tokens) ==
  LET token_set == {StripPunct(msg_tokens[i]) : i \in DOMAIN msg_tokens}
      wi == CATEGORY_TOKENS[1] \in token_set
      wp == CATEGORY_TOKENS[2] \in token_set \/ CATEGORY_TOKENS[3] \in token_set
      wm == CATEGORY_TOKENS[4] \in token_set \/ CATEGORY_TOKENS[5] \in token_set
  IN  [wants_item |-> wi, wants_pokemon |-> wp, wants_move |-> wm,
       allowed |-> (IF wi THEN {"item"} ELSE {}) \cup
                   (IF wp THEN {"pokemon"} ELSE {}) \cup
                   (IF wm THEN {"move"} ELSE {})]

(***************************************************************************)
(* extract_probable_id                                                     *)
(***************************************************************************)
\* Variant of CategoryTokenUsed: only the raw tokens are looked at.
CategoryTokenUsed_RawOnly(msg_tokens) ==
  LET hits == {k \in 1..Len(CATEGORY_TOKENS) : CATEGORY_TOKENS[k] \in Range(msg_tokens)}
  IN  IF hits = {} THEN None
      ELSE CATEGORY_TOKENS[CHOOSE k \in hits : \A j \in hits : k <= j]

\* Variant of CategoryTokenUsed: CATEGORY_TOKENS is gone through from its end.
CategoryTokenUsed_LastFirst(msg_tokens) ==
  LET raw      == Range(msg_tokens)
      stripped == {StripPunct(msg_tokens[i]) : i \in DOMAIN msg_tokens}
      hits     == {k \in 1..Len(CATEGORY_TOKENS) :
                     CATEGORY_TOKENS[k] \in raw \cup stripped}
  IN  IF hits = {} THEN None
      ELSE CATEGORY_TOKENS[CHOOSE k \in hits : \A j \in hits : k >= j]

\* The loop over CATEGORY_TOKENS: the first token of the tuple that is a
\* token of the message, raw or stripped of punctuation; None when none is.
CategoryTokenUsed(msg_tokens) ==
  LET raw      == Range(msg_tokens)
      stripped == {StripPunct(msg_tokens[i]) : i \in DOMAIN msg_tokens}
      hits     == {k \in 1..Len(CATEGORY_TOKENS) :
                     CATEGORY_TOKENS[k] \in raw \cup stripped}
  IN  IF hits = {} THEN None
      ELSE CATEGORY_TOKENS[CHOOSE k \in hits : \A j \in hits : k <= j]

\* \b between s[k] and s[k+1] (k = 0 and k = Len(s) are the ends).
WordBoundary(s, k) ==
  LET before == k >= 1 /\ IsWordChar(s[k])
      after  == k < Len(s) /\ IsWordChar(s[k + 1])
  IN  before # after

\* The marker matches at 1-based position i between two word boundaries,
\* case-insensitively.
MarkerMatchesAt(s, i, marker) ==
  /\ i + Len(marker) - 1 <= Len(s)
  /\ Lower(SubSeq(s, i, i + Len(marker) - 1)) = marker
  /\ WordBoundary(s, i - 1)
  /\ WordBoundary(s, i + Len(marker) - 1)

\* re.search(r"\b(item|pokemon|pokemon with U+00E9|move|moves)\b", s,
\* IGNORECASE): m.end() of the leftmost match, -1 when there is no match.
MarkerSearchEnd(s) ==
  LET starts == {i \in 1..Len(s) :
                   \E k \in 1..Len(CATEGORY_TOKENS) :
                     MarkerMatchesAt(s, i, CATEGORY_TOKENS[k])}
  IN  IF starts = {} THEN -1
      ELSE LET i == CHOOSE x \in starts : \A y \in starts : x <= y
               k == CHOOSE x \in 1..Len(CATEGORY_TOKENS) :
                      /\ MarkerMatchesAt(s, i, CATEGORY_TOKENS[x])
                      /\ \A y \in 1..(x - 1) :
                           ~MarkerMatchesAt(s, i, CATEGORY_TOKENS[y])
           IN  i + Len(CATEGORY_TOKENS[k]) - 1

\* s.find(sub): 0-based index of the first occurrence, -1 when there is none.
Find(s, sub) ==
  LET at == {i \in 1..(Len(s) + 1) : StartsWith(Drop(s, i - 1), sub)}
  IN  IF at = {} THEN -1 ELSE (CHOOSE x \in at : \A y \in at : x <= y) - 1

\* s[pos:] for any integer pos (a negative pos counts from the end).
SliceFrom(s, pos) ==
  IF pos >= 0 THEN Drop(s, pos)
  ELSE IF -pos >= Len(s) THEN s
  ELSE Drop(s, Len(s) + pos)

\* One pass of re.sub(lead_pattern, "", tail, IGNORECASE): at the start of
\* the tail, one or more times the first alternative that is a prefix,
\* then \s*.
RECURSIVE StripLeadIns(_)
StripLeadIns(tail) ==
  LET hits == {k \in 1..Len(LEAD_IN_TOKENS) :
                 StartsWith(Lower(tail), LEAD_IN_TOKENS[k])}
  IN  IF hits = {} THEN tail
      ELSE LET k == CHOOSE x \in hits : \A y \in hits : x <= y
           IN  StripLeadIns(LStrip(Drop(tail, Len(LEAD_IN_TOKENS[k]))))

\* while prev != tail: prev = tail; tail = re.sub(...)
RECURSIVE StripLeadInsFix(_)
StripLeadInsFix(tail) ==
  LET next == StripLeadIns(tail)
  IN  IF next = tail THEN tail ELSE StripLeadInsFix(next)

extract_probable_id(normalized_msg, msg_tokens) ==
  LET cat_tok == CategoryTokenUsed(msg_tokens)
      m_end   == MarkerSearchEnd(normalized_msg)
      pos     == IF m_end # -1 THEN m_end ELSE Find(normalized_msg, cat_tok)
      tail    == StripLeadInsFix(Strip(SliceFrom(normalized_msg, pos)))
  IN  IF cat_tok = None
        THEN [probable_id |-> None, cat_tok |-> None]
        ELSE [probable_id |-> IF tail = <<>> THEN None ELSE tail,
              cat_tok |-> cat_tok]

(***************************************************************************)
(* kb_header_from_flags                                                    *)
(***************************************************************************)
\* Variant of kb_header_from_flags: the flags are looked at in the order
\* move, pokemon, item.
kb_header_from_flags_MoveFirst(wants_item, wants_pokemon, wants_move) ==
  IF wants_move THEN <<"m","o","v","e">>
  ELSE IF wants_pokemon THEN <<"p","o","k","e","m","o","n">>
  ELSE <<"i","t","e","m">>

kb_header_from_flags(wants_item, wants_pokemon, wants_move) ==
  IF wants_item THEN <<"i","t","e","m">>
  ELSE IF wants_pokemon THEN <<"p","o","k","e","m","o","n">>
  ELSE <<"m","o","v","e">>

(***************************************************************************)
(* Scores: a float score is the exact fraction <<n, d>> in lowest terms    *)
(* (d > 0).  Correctly rounded division gives equal floats for equal       *)
(* fractions and keeps their order.                                        *)
(***************************************************************************)
RECURSIVE GCD(_, _)
GCD(a, b) == IF b = 0 THEN a ELSE GCD(b, a % b)

Frac(n, d) == LET g == GCD(n, d) IN <<n \div g, d \div g>>

FracLess(a, b) == a[1] * b[2] < b[1] * a[2]

FracMax(a, b) == IF FracLess(a, b) THEN b ELSE a

\* The greatest fraction of a non-empty finite set.
FracMaxOf(S) == CHOOSE x \in S : \A y \in S : ~FracLess(x, y)

ScoreZero == <<0, 1>>

ScoreOne == <<1, 1>>

\* best_score: float = -1.0
ScoreSentinel == <<-1, 1>>

\* The 0.98 of weak_match.
WeakThreshold == <<49, 50>>

(***************************************************************************)
(* rapidfuzz.fuzz, as select_best_by_id_similarity calls it, scaled to     *)
(* [0, 1].  The similarity of two strings is the normalised Indel          *)
(* similarity 2 * LCS / (len1 + len2).                                     *)
(***************************************************************************)
Max2(a, b) == IF a < b THEN b ELSE a

\* One row of the longest-common-subsequence table.  (The bound variable
\* holds the row built so far as a value, which keeps the evaluation flat.)
RECURSIVE LcsRow(_, _, _, _, _)
LcsRow(prev, c, b, j, cur) ==
  IF j > Len(b) THEN cur
  ELSE CHOOSE r \in
         {LcsRow(prev, c, b, j + 1, next) :
            next \in {Append(cur, IF c = b[j] THEN prev[j] + 1
                                  ELSE Max2(prev[j + 1], cur[j]))}} : TRUE

RECURSIVE LcsFrom(_, _, _, _)
LcsFrom(a, b, i, prev) ==
  IF i > Len(a) THEN prev[Len(b) + 1]
  ELSE CHOOSE r \in
         {LcsFrom(a, b, i + 1, row) :
            row \in {LcsRow(prev, a[i], b, 1, <<0>>)}} : TRUE

LCS(a, b) == LcsFrom(a, b, 1, [j \in 1..(Len(b) + 1) |-> 0])

\* fuzz.ratio / 100
Ratio(a, b) ==
  IF Len(a) + Len(b) = 0 THEN ScoreOne
  ELSE Frac(2 * LCS(a, b), Len(a) + Len(b))

\* 1 - dist / lensum
NormDistance(dist, lensum) ==
  IF lensum = 0 THEN ScoreOne ELSE Frac(lensum - dist, lensum)

\* The best alignment of the needle with a window of the haystack: the
\* prefixes shorter than the needle, the windows of the needle's length,
\* the suffixes no longer than the needle.
PartialRatioImpl(needle, hay) ==
  LET m == Len(needle)
      n == Len(hay)
      windows ==
        {SubSeq(hay, 1, i) : i \in 1..(m - 1)} \cup
        {SubSeq(hay, i + 1, i + m) : i \in 0..(n - m - 1)} \cup
        {SubSeq(hay, i + 1, n) : i \in (n - m)..(n - 1)}
  IN  FracMaxOf({ScoreZero} \cup {Ratio(needle, w) : w \in windows})

\* fuzz.partial_ratio(s1, s2) / 100
PartialRatio(s1, s2) ==
  IF s1 = <<>> /\ s2 = <<>> THEN ScoreOne
  ELSE IF s1 = <<>> \/ s2 = <<>> THEN ScoreZero
  ELSE LET shorter == IF Len(s1) <= Len(s2) THEN s1 ELSE s2
           longer  == IF Len(s1) <= Len(s2) THEN s2 ELSE s1
           res     == PartialRatioImpl(shorter, longer)
       IN  IF res # ScoreOne /\ Len(s1) = Len(s2)
             THEN FracMax(res, PartialRatioImpl(longer, shorter))
             ELSE res

\* fuzz.token_set_ratio(s1, s2) / 100
TokenSetRatio(s1, s2) ==
  LET tokens_a  == Range(Words(s1))
      tokens_b  == Range(Words(s2))
      intersect == tokens_a \cap tokens_b
      diff_ab   == Join(Sorted(tokens_a \ tokens_b), <<" ">>)
      diff_ba   == Join(Sorted(tokens_b \ tokens_a), <<" ">>)
      ab_len    == Len(diff_ab)
      ba_len    == Len(diff_ba)
      sect_len  == Len(Join(Sorted(intersect), <<" ">>))
      sep       == IF sect_len # 0 THEN 1 ELSE 0
      sect_ab_len == sect_len + sep + ab_len
      sect_ba_len == sect_len + sep + ba_len
      dist      == ab_len + ba_len - 2 * LCS(diff_ab, diff_ba)
      result    == NormDistance(dist, sect_ab_len + sect_ba_len)
      sect_ab_ratio == NormDistance(sep + ab_len, sect_len + sect_ab_len)
      sect_ba_ratio == NormDistance(sep + ba_len, sect_len + sect_ba_len)
  IN  IF tokens_a = {} \/ tokens_b = {} THEN ScoreZero
      ELSE IF intersect # {} /\ (tokens_a \subseteq tokens_b \/ tokens_b \subseteq tokens_a)
        THEN ScoreOne
      ELSE IF sect_len = 0 THEN result
      ELSE FracMax(result, FracMax(sect_ab_ratio, sect_ba_ratio))

(***************************************************************************)
(* select_best_by_id_similarity                                            *)
(*                                                                         *)
(* A candidate is [text, distance]: text a string or None, distance a      *)
(* natural number or NoDistance.                                           *)
(***************************************************************************)
\* A result without "distance" (or with distance None).
NoDistance == -1

\* best: Optional[dict] = None
NoItem == [text |-> None, distance |-> NoDistance, none |-> TRUE]

\* (item.get("text") or "")
TextOf(item) == IF item.text = None THEN <<>> ELSE item.text

\* parts[1].strip().lower() if len(parts) >= 2 else ""
CandidateId(item) ==
  LET parts == Split(Strip(TextOf(item)), KB_HEADER_SEP)
  IN  IF Len(parts) >= 2 THEN Lower(Strip(parts[2])) ELSE <<>>

(***************************************************************************)
(* resolve_kb_path, find_exact_kb_line                                     *)
(*                                                                         *)
(* A path is a string of TLA+.  semantic_where is NoWhere (None), a dict    *)
(* (a record of its keys, which may have the field doc_name) or a value    *)
(* that is no dict; the values of a dict are PyStr and PyInt values.       *)
(* A file is [exists, lines]: open() raises when exists is FALSE; lines    *)
(* are the lines as iteration over the file yields them, line ends         *)
(* included.                                                               *)
(***************************************************************************)
KB_DEFAULT_PATH == "data/processed/pokemon_kb.txt"

NoWhere == [none |-> TRUE]

\* A str and an int of Python.
PyStr(s) == [str |-> s]

PyInt(n) == [int |-> n]

\* isinstance(v, str)
IsStr(v) == "str" \in DOMAIN v

\* isinstance(v, dict)
IsDict(v) == DOMAIN v \cap {"none", "str", "int"} = {}

\* os.path.join(dir, name) of posixpath: a name that starts with "/" is
\* absolute and replaces what comes before it.
PathJoin(dir, name) ==
  IF SubSeq(name, 1, 1) = "/" THEN name ELSE dir \o "/" \o name

resolve_kb_path(semantic_where) ==
  IF /\ IsDict(semantic_where)
     /\ "doc_name" \in DOMAIN semantic_where
     /\ IsStr(semantic_where.doc_name)
     /\ semantic_where.doc_name.str # ""
    THEN PathJoin("data/processed", semantic_where.doc_name.str)
    ELSE KB_DEFAULT_PATH

\* f"{kb_header} — {probable_id.strip().lower()} —"
TargetPrefix(kb_header, probable_id) ==
  kb_header \o KB_HEADER_SEP \o Lower(Strip(probable_id)) \o <<" ", "EM">>

\* Bytes of the file that cannot be decoded.  A file is decoded a block of
\* 8192 bytes at a time, and the files here are shorter than one block:
\* reading raises before the first line is yielded.
Undecodable == <<"UnicodeDecodeError">>

\* The first line of the file that matches, stripped; None when none does.
RECURSIVE ScanLines(_, _)
ScanLines(lines, target_prefix) ==
  IF lines = <<>> THEN None
  ELSE IF StartsWith(Lower(Strip(Head(lines))), target_prefix)
    THEN Strip(Head(lines))
  ELSE ScanLines(Tail(lines), target_prefix)

\* not probable_id
Falsy(str) == str = None \/ str = <<>>

\* Variant of find_exact_kb_line: the line is compared without .lower().
find_exact_kb_line_CaseSensitive(file, kb_header, probable_id) ==
  LET prefix == TargetPrefix(kb_header, probable_id)
      hits   == {i \in 1..Len(file.lines) : StartsWith(Strip(file.lines[i]), prefix)}
  IN  IF Falsy(probable_id) \/ ~file.exists \/ hits = {} THEN None
      ELSE Strip(file.lines[CHOOSE i \in hits : \A j \in hits : i <= j])

\* Variant of find_exact_kb_line: the scan goes on to the last matching line.
find_exact_kb_line_Last(file, kb_header, probable_id) ==
  LET prefix == TargetPrefix(kb_header, probable_id)
      hits   == {i \in 1..Len(file.lines) :
                   StartsWith(Lower(Strip(file.lines[i])), prefix)}
  IN  IF Falsy(probable_id) \/ ~file.exists \/ hits = {} THEN None
      ELSE IF Undecodable \in Range(file.lines) THEN None
      ELSE Strip(file.lines[CHOOSE i \in hits : \A j \in hits : i >= j])

\* Variant of find_exact_kb_line: only the header is compared.
find_exact_kb_line_HeaderOnly(file, kb_header, probable_id) ==
  LET hits == {i \in 1..Len(file.lines) :
                 StartsWith(Lower(Strip(file.lines[i])), kb_header)}
  IN  IF Falsy(probable_id) \/ ~file.exists \/ hits = {} THEN None
      ELSE IF Undecodable \in Range(file.lines) THEN None
      ELSE Strip(file.lines[CHOOSE i \in hits : \A j \in hits : i <= j])

find_exact_kb_line(file, kb_header, probable_id) ==
  IF Falsy(probable_id) THEN None
  ELSE IF ~file.exists THEN None
  ELSE IF Undecodable \in Range(file.lines) THEN None
  ELSE ScanLines(file.lines, TargetPrefix(kb_header, probable_id))

\* Variant of OpensFile: the file is opened before probable_id is looked at.
OpensFile_Always(probable_id) == TRUE

\* Whether find_exact_kb_line reaches open(kb_path).
OpensFile(probable_id) == ~Falsy(probable_id)

(***************************************************************************)
(* The inputs of the model                                                 *)
(***************************************************************************)
Item == <<"I","t","e","m">>

Pokemon == <<"P","o","k","e","m","o","n">>

Move == <<"M","o","v","e">>

Type == <<"T","y","p","e">>

PepUpPlant == <<"P","e","p","-","U","p"," ","P","l","a","n","t">>

IceBeam == <<"I","c","e"," ","B","e","a","m">>

IcePunch == <<"I","c","e"," ","P","u","n","c","h">>

Ice == <<"I","c","e">>

\* "Poke Ball" with U+00E9
PokeBall == <<"P","o","k","eacute"," ","B","a","l","l">>

Onix == <<"O","n","i","x">>

Piplup == <<"P","i","p","l","u","p">>

\* "<Category> — <Id> — <body>"
KbLine(category, id, body) ==
  category \o KB_HEADER_SEP \o id \o KB_HEADER_SEP \o body

\* "Item — Pep-Up Plant — Locations: X: here"
PepUpLine ==
  KbLine(Item, PepUpPlant,
         <<"L","o","c","a","t","i","o","n","s",":"," ","X",":"," ","h","e","r","e">>)

IceBeamLine == KbLine(Move, IceBeam, <<"x">>)

IcePunchLine == KbLine(Move, IcePunch, <<"x">>)

IceTypeLine == KbLine(Type, Ice, <<"x">>)

PokeBallLine == KbLine(Item, PokeBall, <<"x">>)

OnixLine == KbLine(Pokemon, Onix, <<"x">>)

PiplupLine == KbLine(Pokemon, Piplup, <<"x">>)

\* A search result without the header delimiter.
Garbage == <<"g","a","r","b","a","g","e">>

\* "Information about the Item Pep-Up Plant"
MsgPepUp ==
  <<"I","n","f","o","r","m","a","t","i","o","n"," ","a","b","o","u","t"," ",
    "t","h","e"," ">> \o Item \o <<" ">> \o PepUpPlant

\* "move Ice Beam"
MsgMoveIceBeam == <<"m","o","v","e"," ">> \o IceBeam

\* "ICE BEAM"
MsgIceBeamUpper == <<"I","C","E"," ","B","E","A","M">>

\* "Pokemon Onix"
MsgPokemonOnix == Pokemon \o <<" ">> \o Onix

\* "Pokemon: Piplup"
MsgPokemonPiplup == Pokemon \o <<":", " ">> \o Piplup

\* "moves of Pokemon Piplup"
MsgMovesOfPokemon == <<"m","o","v","e","s"," ","o","f"," ">> \o Pokemon \o <<" ">> \o Piplup

\* The messages a call is made with.
Messages ==
  {MsgPepUp, MsgMoveIceBeam, MsgIceBeamUpper, PokeBall, MsgPokemonOnix,
   MsgPokemonPiplup, MsgMovesOfPokemon, None}

\* The results the search may return: the pool its results are drawn from.
Candidates ==
  {[text |-> IceBeamLine,  distance |-> 2],
   [text |-> IceBeamLine,  distance |-> NoDistance],
   [text |-> IcePunchLine, distance |-> 1],
   [text |-> IceTypeLine,  distance |-> 1],
   [text |-> PokeBallLine, distance |-> 1],
   [text |-> Garbage,      distance |-> NoDistance],
   [text |-> None,         distance |-> 1]}

\* The longest list of results the search returns (semantic_top_k).
MaxResults == 2

RECURSIVE SeqsUpTo(_, _)
SeqsUpTo(S, n) ==
  IF n = 0 THEN {<<>>}
  ELSE LET shorter == SeqsUpTo(S, n - 1)
       IN  shorter \cup {Append(q, x) : q \in {r \in shorter : Len(r) = n - 1}, x \in S}

ResultLists == SeqsUpTo(Candidates, MaxResults)

WithLineEnds(lines) == [i \in 1..Len(lines) |-> Append(lines[i], "NL")]

\* The knowledge-base file: complete, empty, or missing.
KbFiles ==
  {[exists |-> TRUE,
    lines  |-> WithLineEnds(<<PepUpLine, IceBeamLine, IcePunchLine, IceTypeLine,
                              PokeBallLine, OnixLine, PiplupLine>>)],
   [exists |-> TRUE,  lines |-> <<>>],
   [exists |-> FALSE, lines |-> <<>>]}

\* A document of its own, uploaded under the name moves.txt.
MovesDocName == "moves.txt"

MovesFile ==
  [exists |-> TRUE, lines |-> WithLineEnds(<<IcePunchLine, IceBeamLine>>)]

WhereInputs == {NoWhere, [doc_name |-> PyStr(MovesDocName)]}

\* The files under data/processed.
FileSystems ==
  {[path \in {KB_DEFAULT_PATH, resolve_kb_path([doc_name |-> PyStr(MovesDocName)])} |->
      IF path = KB_DEFAULT_PATH THEN kb ELSE MovesFile] : kb \in KbFiles}

\* The text add_context receives when semantic_contextualize_prompt is None.
DefaultPrompt == "This information may be relevant to the conversation"

\* The lines print writes are records: the text and the values printed.
NoContextMessage == [text |-> "semantically_contextualize: No context added"]

(***************************************************************************)
(* select_best_by_id_similarity: the loop                                 *)
(***************************************************************************)
\* The score of a candidate text against the message (lines 229-236).
IdSimilarity(text, normalized_msg) ==
  LET candidate_id == CandidateId([text |-> text])
  IN  IF candidate_id = <<>> THEN ScoreZero
      ELSE FracMax(TokenSetRatio(normalized_msg, candidate_id),
                   PartialRatio(normalized_msg, candidate_id))

\* score of the loop body for one item
CandidateScore(item, normalized_msg) == IdSimilarity(item.text, normalized_msg)

\* Variant of DistanceLess: a missing distance is compared as it is stored.
DistanceLess_MissingAsNumber(d_cur, d_best) == d_cur < d_best

\* d_cur < d_best with a missing distance read as float("inf").
DistanceLess(d_cur, d_best) ==
  /\ d_cur # NoDistance
  /\ (d_best = NoDistance \/ d_cur < d_best)

\* Variant of SelectStep: the smaller distance replaces the running best
\* before the scores are compared.
SelectStep_DistanceFirst(results, i, score, best, best_score) ==
  IF best = 0 THEN <<i, score>>
  ELSE IF DistanceLess(results[i].distance, results[best].distance) THEN <<i, score>>
  ELSE IF FracLess(best_score, score) THEN <<i, score>>
  ELSE <<best, best_score>>

\* Variant of SelectStep: on equal scores the running best stays, whatever
\* the distances.
SelectStep_KeepFirst(results, i, score, best, best_score) ==
  IF FracLess(best_score, score) THEN <<i, score>> ELSE <<best, best_score>>

\* One pass of the loop body (lines 238-248) for candidate i with its
\* score: the new <<best, best_score>>; best is the index of the running
\* best in results (0: None).
SelectStep(results, i, score, best, best_score) ==
  IF FracLess(best_score, score) THEN <<i, score>>
  ELSE IF score = best_score /\ best # 0
          /\ DistanceLess(results[i].distance, results[best].distance)
    THEN <<i, best_score>>
  ELSE <<best, best_score>>

\* The score of every item, in the order of the list.
\* (The bound variable holds the scores so far as a value.)
RECURSIVE CandidateScores(_, _, _)
CandidateScores(results, normalized_msg, acc) ==
  IF Len(acc) = Len(results) THEN acc
  ELSE CHOOSE r \in
         {CandidateScores(results, normalized_msg, next) :
            next \in {Append(acc, CandidateScore(results[Len(acc) + 1],
                                                 normalized_msg))}} : TRUE

\* The loop of lines 223-248 from candidate i on, state = <<best, best_score>>;
\* scores[i] is the score of the i-th pass.
RECURSIVE SelectLoop(_, _, _, _)
SelectLoop(results, scores, i, state) ==
  IF i > Len(results) THEN state
  ELSE CHOOSE r \in
         {SelectLoop(results, scores, i + 1, next) :
            next \in {SelectStep(results, i, scores[i], state[1], state[2])}} : TRUE

\* Returns the index of the chosen candidate in results (0: None), the
\* candidate and the score, with the scores the loop computed.
select_best_by_id_similarity(results, normalized_msg, msg_tokens) ==
  CHOOSE out \in
    {LET r   == SelectLoop(results, scores, 1, <<0, ScoreSentinel>>)
         idx == IF r[1] = 0 /\ results # <<>> THEN 1 ELSE r[1]
     IN  [index |-> idx,
          best  |-> IF idx = 0 THEN NoItem ELSE results[idx],
          best_score |-> r[2],
          scores |-> scores] :
       scores \in {CandidateScores(results, normalized_msg, <<>>)}} : TRUE

(***************************************************************************)
(* PatchedAgent.semantically_contextualize                                 *)
(***************************************************************************)
VARIABLES
  pc,              \* the statement the call is at
  message,         \* argument
  semantic_where,  \* argument
  fs,              \* the files, by path
  results,         \* what semantic_db.query returned
  normalized_msg, msg_tokens,
  wants,           \* the flags of intent_from_tokens
  best,            \* the candidate select_best_by_id_similarity returned
  best_index,      \* its place in results (0: None)
  best_score,
  scores,          \* the score of each result, as the scorer computed it
  scorer,          \* the context and the score as of the scorer
  context,
  fallback,        \* what the exact-id fallback did
  added,           \* the calls of add_context, in order
  stdout,          \* the lines printed
  io,              \* the I/O operations, in order
  call,            \* a direct call of a helper: the function and its arguments
  ret,             \* what that call returned
  semantic_debug,  \* argument
  prior,           \* how an earlier call with the same arguments ended
  calls            \* the calls discuss_document made

vars ==
  <<pc, message, semantic_where, fs, results, normalized_msg, msg_tokens, wants,
    best, best_index, best_score, scores, scorer, context, fallback, added,
    stdout, io, call, ret, semantic_debug, prior, calls>>

\* No helper is called directly.
NoCall == [fn |-> "none"]

NoRet == [returned |-> FALSE]

NoScorer == [context |-> None, score |-> ScoreSentinel]

\* No earlier call.
NoPrior == [recorded |-> FALSE]

NoFallback ==
  [attempted |-> FALSE, probable_id |-> None, kb_header |-> None,
   kb_path |-> "", exact_line |-> None]

NoWants == [wants_item |-> FALSE, wants_pokemon |-> FALSE, wants_move |-> FALSE]

Init ==
  /\ pc = "query"
  /\ message \in Messages
  /\ semantic_where \in WhereInputs
  /\ fs \in FileSystems
  /\ results = <<>>
  /\ normalized_msg = <<>>
  /\ msg_tokens = <<>>
  /\ wants = NoWants
  /\ best = NoItem
  /\ best_index = 0
  /\ best_score = ScoreSentinel
  /\ scores = <<>>
  /\ scorer = NoScorer
  /\ context = None
  /\ fallback = NoFallback
  /\ added = <<>>
  /\ stdout = <<>>
  /\ io = <<>>
  /\ call = NoCall
  /\ ret = NoRet
  /\ semantic_debug = FALSE
  /\ prior = NoPrior
  /\ calls = <<>>

\* What the search may return.  The search is a function of its arguments
\* and of the collection: a call repeated with the same arguments on the
\* same collection gets the results of the earlier call.
SearchResults == IF prior.recorded THEN {prior.results} ELSE ResultLists

\* Variant of Query: the search is made a second time.
Query_Retry ==
  /\ pc = "query"
  /\ \E r \in SearchResults : results' = r
  /\ io' = io \o <<"search", "search">>
  /\ pc' = "normalize"
  /\ UNCHANGED <<call, ret, semantic_debug, prior, calls>>
  /\ UNCHANGED <<message, semantic_where, fs, normalized_msg, msg_tokens, wants,
                 best, best_index, best_score, scores, scorer, context, fallback,
                 added, stdout>>

\* Line 69: results = self.semantic_db.query(message, ...).
Query ==
  /\ pc = "query"
  /\ \E r \in SearchResults : results' = r
  /\ io' = Append(io, "search")
  /\ pc' = "normalize"
  /\ UNCHANGED <<call, ret, semantic_debug, prior, calls>>
  /\ UNCHANGED <<message, semantic_where, fs, normalized_msg, msg_tokens, wants,
                 best, best_index, best_score, scores, scorer, context, fallback,
                 added, stdout>>

\* Lines 72-73: normalize_query_text, intent_from_tokens.
Normalize ==
  /\ pc = "normalize"
  /\ \E n \in {normalize_query_text(message)} :
       \E w \in {intent_from_tokens(n.tokens)} :
         /\ normalized_msg' = n.normalized
         /\ msg_tokens' = n.tokens
         /\ wants' = [wants_item |-> w.wants_item,
                      wants_pokemon |-> w.wants_pokemon,
                      wants_move |-> w.wants_move]
  /\ pc' = "select"
  /\ UNCHANGED <<call, ret, semantic_debug, prior, calls>>
  /\ UNCHANGED <<message, semantic_where, fs, results, best, best_index,
                 best_score, scores, scorer, context, fallback, added, stdout, io>>

\* candidate_labels: "<Category> -- <Id>" of each result that has a header.
RECURSIVE candidate_labels(_)
candidate_labels(rs) ==
  IF rs = <<>> THEN <<>>
  ELSE LET parts == Split(Strip(TextOf(Head(rs))), KB_HEADER_SEP)
           rest  == candidate_labels(Tail(rs))
       IN  IF Len(parts) >= 2
             THEN <<Strip(parts[1]) \o KB_HEADER_SEP \o Strip(parts[2])>> \o rest
             ELSE rest

\* Lines 76-77: what is printed before the selection.
CandidatesPrinted ==
  IF semantic_debug
    THEN <<[text |-> "Context candidate ids:", labels |-> candidate_labels(results)]>>
    ELSE <<>>

\* Variant of Select: among the results of the highest score, any is taken.
Select_AnyTop ==
  /\ pc = "select"
  /\ stdout' = stdout \o CandidatesPrinted
  /\ \E r \in {select_best_by_id_similarity(results, normalized_msg, msg_tokens)} :
       \E idx \in (IF results = <<>> THEN {0}
                   ELSE {i \in DOMAIN results : r.scores[i] = r.best_score}) :
         /\ best' = IF idx = 0 THEN NoItem ELSE results[idx]
         /\ best_index' = idx
         /\ best_score' = r.best_score
         /\ scores' = r.scores
         /\ context' = IF idx = 0 THEN None ELSE TextOf(best')
         /\ scorer' = [context |-> context', score |-> r.best_score]
  /\ pc' = "fallback"
  /\ UNCHANGED <<call, ret, semantic_debug, prior, calls>>
  /\ UNCHANGED <<message, semantic_where, fs, results, normalized_msg, msg_tokens,
                 wants, fallback, added, io>>

\* Lines 76-86: the labels when debugging, select_best_by_id_similarity,
\* context = best.get("text") or "".
Select ==
  /\ pc = "select"
  /\ stdout' = stdout \o CandidatesPrinted
  /\ \E r \in {select_best_by_id_similarity(results, normalized_msg, msg_tokens)} :
         /\ best' = r.best
         /\ best_index' = r.index
         /\ best_score' = r.best_score
         /\ scores' = r.scores
         /\ context' = IF r.index = 0 THEN None ELSE TextOf(r.best)
         /\ scorer' = [context |-> context', score |-> r.best_score]
  /\ pc' = "fallback"
  /\ UNCHANGED <<call, ret, semantic_debug, prior, calls>>
  /\ UNCHANGED <<message, semantic_where, fs, results, normalized_msg, msg_tokens,
                 wants, fallback, added, io>>

\* Variant of FallbackTriggered: wants_any is left out.
FallbackTriggered_WeakOnly ==
  FracLess(best_score, WeakThreshold) \/ context = None

\* wants_any and weak_match (lines 102-104)
FallbackTriggered ==
  /\ wants.wants_item \/ wants.wants_pokemon \/ wants.wants_move
  /\ FracLess(best_score, WeakThreshold) \/ context = None

\* Variant of FallbackResult: exact_line is assigned whether found or not.
FallbackResult_Unguarded(exact_line, ctx, score) ==
  IF exact_line = None THEN <<None, score>> ELSE <<exact_line, ScoreOne>>

\* Variant of FallbackResult: the line found replaces the context and the
\* score stays.
FallbackResult_KeepScore(exact_line, ctx, score) ==
  IF ~Falsy(exact_line) THEN <<exact_line, score>> ELSE <<ctx, score>>

\* Lines 109-111: <<context, best_score>> after "if exact_line:".
FallbackResult(exact_line, ctx, score) ==
  IF ~Falsy(exact_line) THEN <<exact_line, ScoreOne>> ELSE <<ctx, score>>

\* Lines 101-114: the exact-id fallback.  No call of the try block raises:
\* find_exact_kb_line returns None when open() does.
Fallback ==
  /\ pc = "fallback"
  /\ IF FallbackTriggered
       THEN \E probable_id \in {extract_probable_id(normalized_msg, msg_tokens).probable_id},
               kb_header \in {kb_header_from_flags(wants.wants_item,
                                                   wants.wants_pokemon,
                                                   wants.wants_move)},
               kb_path \in {resolve_kb_path(semantic_where)} :
              \E exact_line \in {find_exact_kb_line(fs[kb_path], kb_header, probable_id)} :
                \E after \in {FallbackResult(exact_line, context, best_score)} :
                  /\ fallback' = [attempted |-> TRUE, probable_id |-> probable_id,
                                  kb_header |-> kb_header, kb_path |-> kb_path,
                                  exact_line |-> exact_line]
                  /\ io' = IF OpensFile(probable_id) THEN Append(io, "scan") ELSE io
                  /\ context' = after[1]
                  /\ best_score' = after[2]
       ELSE UNCHANGED <<fallback, io, context, best_score>>
  /\ pc' = "inject"
  /\ UNCHANGED <<call, ret, semantic_debug, prior, calls>>
  /\ UNCHANGED <<message, semantic_where, fs, results, normalized_msg, msg_tokens,
                 wants, best, best_index, scores, scorer, added, stdout>>

\* Lines 118-123: what is printed before add_context.
ChosenPrinted ==
  IF semantic_debug
    THEN LET parts == Split(Strip(context), KB_HEADER_SEP)
         IN  <<[text |-> "Semantic retrieval debug: chosen_id=",
                chosen_id |-> IF Len(parts) >= 2 THEN Strip(parts[2]) ELSE None,
                score |-> best_score],
               [text |-> "Context text:", context |-> context]>>
    ELSE <<>>

\* Variant of Inject: nothing is printed when no context is added.
Inject_Silent ==
  /\ pc = "inject"
  /\ IF context # None
       THEN /\ added' = Append(added, [prompt |-> DefaultPrompt, context |-> context])
            /\ stdout' = stdout \o ChosenPrinted
       ELSE UNCHANGED <<added, stdout>>
  /\ pc' = "done"
  /\ UNCHANGED <<message, semantic_where, fs, results, normalized_msg, msg_tokens,
                 wants, best, best_index, best_score, scores, scorer, context,
                 fallback, io, call, ret, semantic_debug, prior, calls>>

\* Variant of Inject: when debugging, the context is printed and not added.
Inject_DebugPrintsOnly ==
  /\ pc = "inject"
  /\ IF context # None
       THEN /\ stdout' = stdout \o ChosenPrinted
            /\ added' = IF semantic_debug THEN added
                         ELSE Append(added, [prompt |-> DefaultPrompt, context |-> context])
       ELSE /\ stdout' = Append(stdout, NoContextMessage)
            /\ UNCHANGED added
  /\ pc' = "done"
  /\ UNCHANGED <<call, ret, semantic_debug, prior, calls>>
  /\ UNCHANGED <<message, semantic_where, fs, results, normalized_msg, msg_tokens,
                 wants, best, best_index, best_score, scores, scorer, context,
                 fallback, io>>

\* Lines 117-130: add_context, or the message that none was added.
Inject ==
  /\ pc = "inject"
  /\ IF context # None
       THEN /\ stdout' = stdout \o ChosenPrinted
            /\ added' = Append(added, [prompt |-> DefaultPrompt, context |-> context])
       ELSE /\ stdout' = Append(stdout, NoContextMessage)
            /\ UNCHANGED added
  /\ pc' = "done"
  /\ UNCHANGED <<call, ret, semantic_debug, prior, calls>>
  /\ UNCHANGED <<message, semantic_where, fs, results, normalized_msg, msg_tokens,
                 wants, best, best_index, best_score, scores, scorer, context,
                 fallback, io>>

Next == Query \/ Normalize \/ Select \/ Fallback \/ Inject

Spec == Init /\ [][Next]_vars

(***************************************************************************)
(* A call of semantically_contextualize made a second time                 *)
(*                                                                         *)
(* After a call has ended the agent is called again with the same message  *)
(* and filter, over the same files; semantic_debug is chosen anew.  What   *)
(* the agent keeps between calls stays: the contexts added, what was       *)
(* printed, the I/O done.  The locals of the call start afresh.            *)
(***************************************************************************)
\* The first call runs against the complete knowledge base.
RerunInit ==
  /\ Init
  /\ fs[KB_DEFAULT_PATH].exists
  /\ fs[KB_DEFAULT_PATH].lines # <<>>

\* Line 67, entered again: how the call ended is kept in prior.
Rerun ==
  /\ pc = "done"
  /\ ~prior.recorded
  /\ prior' = [recorded |-> TRUE, results |-> results, context |-> context,
               best_score |-> best_score, semantic_debug |-> semantic_debug,
               added |-> Len(added), io |-> Len(io)]
  /\ semantic_debug' \in BOOLEAN
  /\ results' = <<>>
  /\ normalized_msg' = <<>>
  /\ msg_tokens' = <<>>
  /\ wants' = NoWants
  /\ best' = NoItem
  /\ best_index' = 0
  /\ best_score' = ScoreSentinel
  /\ scores' = <<>>
  /\ scorer' = NoScorer
  /\ context' = None
  /\ fallback' = NoFallback
  /\ pc' = "query"
  /\ UNCHANGED <<message, semantic_where, fs, added, stdout, io, call, ret, calls>>

RerunNext == Next \/ Rerun

RerunSpec == RerunInit /\ [][RerunNext]_vars

(***************************************************************************)
(* PatchedAgent.discuss_document                                           *)
(*                                                                         *)
(* call holds the arguments doc_name and semantic_where of the call;       *)
(* semantic_query is message.  A ValueError raised ends the call at        *)
(* pc = "raised".                                                          *)
(***************************************************************************)
NoDocName == [none |-> TRUE]

\* The doc_name and the semantic_where discuss_document is called with.
DiscussCalls ==
  {[fn |-> "discuss_document", doc_name |-> d, semantic_where |-> w] :
     d \in {NoDocName, PyStr(MovesDocName)},
     w \in {NoWhere, [doc_name |-> PyStr(MovesDocName)], [index |-> PyInt(0)]}}

DiscussInit ==
  /\ pc = "discuss"
  /\ message \in Messages
  /\ semantic_where = NoWhere
  /\ fs \in {f \in FileSystems : f[KB_DEFAULT_PATH].exists /\ f[KB_DEFAULT_PATH].lines # <<>>}
  /\ results = <<>>
  /\ normalized_msg = <<>>
  /\ msg_tokens = <<>>
  /\ wants = NoWants
  /\ best = NoItem
  /\ best_index = 0
  /\ best_score = ScoreSentinel
  /\ scores = <<>>
  /\ scorer = NoScorer
  /\ context = None
  /\ fallback = NoFallback
  /\ added = <<>>
  /\ stdout = <<>>
  /\ io = <<>>
  /\ call \in DiscussCalls
  /\ ret = NoRet
  /\ semantic_debug = FALSE
  /\ prior = NoPrior
  /\ calls = <<>>

\* Variant of DiscussDocument: a doc_name given replaces semantic_where.
DiscussDocument_DocNameFirst ==
  /\ pc = "discuss"
  /\ IF call.semantic_where = NoWhere /\ call.doc_name = NoDocName
       THEN /\ ret' = [returned |-> TRUE, raised |-> "ValueError"]
            /\ pc' = "raised"
            /\ UNCHANGED <<semantic_where, calls>>
       ELSE /\ semantic_where' = IF call.doc_name # NoDocName
                                   THEN [doc_name |-> call.doc_name]
                                   ELSE call.semantic_where
            /\ calls' = Append(calls, [message |-> message,
                                       semantic_where |-> semantic_where'])
            /\ pc' = "query"
            /\ UNCHANGED ret
  /\ UNCHANGED <<message, fs, results, normalized_msg, msg_tokens, wants, best,
                 best_index, best_score, scores, scorer, context, fallback, added,
                 stdout, io, call, semantic_debug, prior>>

\* Lines 134-144: the ValueError, or the filter made of doc_name and the call
\* of semantically_contextualize.
DiscussDocument ==
  /\ pc = "discuss"
  /\ IF call.semantic_where = NoWhere /\ call.doc_name = NoDocName
       THEN /\ ret' = [returned |-> TRUE, raised |-> "ValueError"]
            /\ pc' = "raised"
            /\ UNCHANGED <<semantic_where, calls>>
       ELSE /\ semantic_where' = IF call.semantic_where = NoWhere
                                   THEN [doc_name |-> call.doc_name]
                                   ELSE call.semantic_where
            /\ calls' = Append(calls, [message |-> message,
                                       semantic_where |-> semantic_where'])
            /\ pc' = "query"
            /\ UNCHANGED ret
  /\ UNCHANGED <<message, fs, results, normalized_msg, msg_tokens, wants, best,
                 best_index, best_score, scores, scorer, context, fallback, added,
                 stdout, io, call, semantic_debug, prior>>

DiscussNext == DiscussDocument \/ Next

DiscussSpec == DiscussInit /\ [][DiscussNext]_vars

(***************************************************************************)
(* Direct calls of the helpers                                             *)
(*                                                                         *)
(* One call of one helper of helpers.py with arguments of its own, as      *)
(* scripts/helpers_smoke_test.py makes them.                               *)
(***************************************************************************)
\* "Item -- Pep-Up Plant" with an em dash (docstring of normalize_query_text)
MsgItemDashPepUp == Item \o KB_HEADER_SEP \o PepUpPlant

\* "Item--Onix" with an em dash and no spaces
MsgItemGluedEm == Item \o <<"EM">> \o Onix

\* "Item-Onix" with an en dash and no spaces
MsgItemGluedEn == Item \o <<"EN">> \o Onix

\* "move - Ice Beam"
MsgMoveDash == <<"m","o","v","e"," ","-"," ">> \o IceBeam

\* "Pep-Item x"
MsgPepItem == <<"P","e","p","-","I","t","e","m"," ","x">>

\* "remove Onix"
MsgRemoveOnix == <<"r","e","m","o","v","e"," ">> \o Onix

\* "Item:"
MsgItemOnly == Item \o <<":">>

\* "  Poke  Ball" with U+00E9, two spaces and a final newline
MsgPaddedPokeBall ==
  <<" ", " ">> \o SubSeq(PokeBall, 1, 4) \o <<" ", " ">> \o SubSeq(PokeBall, 6, 9) \o <<"NL">>

\* "Onix" followed by a space and U+5317
MsgOnixBei == Onix \o <<" ", "BEI">>

\* Whitespace only
MsgBlank == <<" ", "NL", " ">>

\* The messages normalize_query_text is called with.
NormalizeInputs ==
  Messages \cup
  {<<>>, MsgBlank, MsgItemDashPepUp, MsgItemGluedEm, MsgItemGluedEn, MsgMoveDash,
   MsgMovesOfPokemon, MsgPepItem, MsgRemoveOnix, MsgItemOnly, MsgPaddedPokeBall,
   MsgOnixBei, <<"BEI">>}

\* The tokens intent_from_tokens is called with.
TokenPool ==
  {CATEGORY_TOKENS[1], CATEGORY_TOKENS[2] \o <<":">>, CATEGORY_TOKENS[3],
   CATEGORY_TOKENS[4], <<",">> \o CATEGORY_TOKENS[5] \o <<",">>,
   CATEGORY_TOKENS[1] \o <<"s">>, <<"r","e">> \o CATEGORY_TOKENS[4], <<":">>}

\* The longest token list of a direct call.
MaxTokens == 2

TokenLists == SeqsUpTo(TokenPool, MaxTokens)

\* A file with several lines of one category and id.
DupFile ==
  [exists |-> TRUE,
   lines  |-> WithLineEnds(<<IcePunchLine,
                             Lower(KbLine(Move, IceBeam, <<"f","i","r","s","t">>)),
                             IceBeamLine,
                             KbLine(Move, IceBeam, <<"l","a","s","t">>)>>)]

\* A file of lines that are not "<Category> -- <Id> -- <Body>": leading
\* whitespace, no body, no spaces around the dashes, no space before the id,
\* no dashes.
LooseFile ==
  [exists |-> TRUE,
   lines  |-> WithLineEnds(<<<<" ", " ">> \o PepUpLine,
                             Move \o KB_HEADER_SEP \o IceBeam \o <<" ", "EM">>,
                             Pokemon \o <<"EM">> \o Onix \o <<"EM", "x">>,
                             Pokemon \o <<" ", "EM">> \o Piplup \o KB_HEADER_SEP \o <<"x">>,
                             Garbage>>)]

\* A file with bytes after the first line that cannot be decoded.
BrokenFile ==
  [exists |-> TRUE,
   lines  |-> <<Append(IcePunchLine, "NL"), Undecodable, Append(IceBeamLine, "NL")>>]

FindFiles == KbFiles \cup {DupFile, LooseFile, BrokenFile}

FindHeaders ==
  {kb_header_from_flags(TRUE, FALSE, FALSE), kb_header_from_flags(FALSE, TRUE, FALSE),
   kb_header_from_flags(FALSE, FALSE, TRUE)}

\* " Ice Beam " with a space on each side
PaddedIceBeam == <<" ">> \o IceBeam \o <<" ">>

FindIds ==
  {None, <<>>, Lower(PepUpPlant), PaddedIceBeam, Lower(IcePunch), Lower(Onix),
   Lower(Piplup)}

\* A doc_name that is an absolute path.
AbsoluteDocName == "/srv/notes.txt"

\* The filters resolve_kb_path is called with: None, a str, a dict without
\* doc_name, dicts whose doc_name is empty, an int, None, a file name, an
\* absolute path.
ResolveInputs ==
  {NoWhere, PyStr(MovesDocName), [index |-> PyInt(0)], [doc_name |-> PyStr("")],
   [doc_name |-> PyInt(5)], [doc_name |-> NoWhere], [doc_name |-> PyStr(MovesDocName)],
   [doc_name |-> PyStr(AbsoluteDocName)]}

HelperCalls ==
  {[fn |-> "normalize_query_text", message |-> m] : m \in NormalizeInputs}
  \cup {[fn |-> "intent_from_tokens", msg_tokens |-> t] : t \in TokenLists}
  \cup {[fn |-> "extract_probable_id",
         normalized_msg |-> normalize_query_text(m).normalized,
         msg_tokens |-> normalize_query_text(m).tokens] : m \in NormalizeInputs}
  \cup {[fn |-> "find_exact_kb_line", file |-> f, kb_header |-> h, probable_id |-> id] :
          f \in FindFiles, h \in FindHeaders, id \in FindIds}
  \cup {[fn |-> "kb_header_from_flags", wants_item |-> wi, wants_pokemon |-> wp,
         wants_move |-> wm] : wi \in BOOLEAN, wp \in BOOLEAN, wm \in BOOLEAN}
  \cup {[fn |-> "resolve_kb_path", semantic_where |-> w] : w \in ResolveInputs}

\* The variables of semantically_contextualize but io.
agentVars ==
  <<pc, message, semantic_where, fs, results, normalized_msg, msg_tokens, wants,
    best, best_index, best_score, scores, scorer, context, fallback, added, stdout,
    semantic_debug, prior, calls>>

HelperInit ==
  /\ pc = "helper"
  /\ message = None
  /\ semantic_where = NoWhere
  /\ fs = <<>>
  /\ results = <<>>
  /\ normalized_msg = <<>>
  /\ msg_tokens = <<>>
  /\ wants = NoWants
  /\ best = NoItem
  /\ best_index = 0
  /\ best_score = ScoreSentinel
  /\ scores = <<>>
  /\ scorer = NoScorer
  /\ context = None
  /\ fallback = NoFallback
  /\ added = <<>>
  /\ stdout = <<>>
  /\ io = <<>>
  /\ call \in HelperCalls
  /\ ret = NoRet
  /\ semantic_debug = FALSE
  /\ prior = NoPrior
  /\ calls = <<>>

NormalizeCall ==
  /\ call.fn = "normalize_query_text"
  /\ ~ret.returned
  /\ ret' = [returned |-> TRUE, value |-> normalize_query_text(call.message)]
  /\ UNCHANGED <<agentVars, io, call>>

IntentCall ==
  /\ call.fn = "intent_from_tokens"
  /\ ~ret.returned
  /\ ret' = [returned |-> TRUE, value |-> intent_from_tokens(call.msg_tokens)]
  /\ UNCHANGED <<agentVars, io, call>>

ExtractCall ==
  /\ call.fn = "extract_probable_id"
  /\ ~ret.returned
  /\ ret' = [returned |-> TRUE,
             value |-> extract_probable_id(call.normalized_msg, call.msg_tokens)]
  /\ UNCHANGED <<agentVars, io, call>>

FindCall ==
  /\ call.fn = "find_exact_kb_line"
  /\ ~ret.returned
  /\ ret' = [returned |-> TRUE,
             value |-> find_exact_kb_line(call.file, call.kb_header, call.probable_id)]
  /\ io' = IF OpensFile(call.probable_id) THEN Append(io, "scan") ELSE io
  /\ UNCHANGED <<agentVars, call>>

HeaderCall ==
  /\ call.fn = "kb_header_from_flags"
  /\ ~ret.returned
  /\ ret' = [returned |-> TRUE,
             value |-> kb_header_from_flags(call.wants_item, call.wants_pokemon,
                                            call.wants_move)]
  /\ UNCHANGED <<agentVars, io, call>>

ResolveCall ==
  /\ call.fn = "resolve_kb_path"
  /\ ~ret.returned
  /\ ret' = [returned |-> TRUE, value |-> resolve_kb_path(call.semantic_where)]
  /\ UNCHANGED <<agentVars, io, call>>

HelperNext ==
  NormalizeCall \/ IntentCall \/ ExtractCall \/ FindCall \/ HeaderCall \/ ResolveCall

HelperSpec == HelperInit /\ [][HelperNext]_vars

(***************************************************************************)
(* The helpers as the orchestrator calls them and as they are called       *)
(* directly.                                                               *)
(***************************************************************************)
CallsInit == Init \/ HelperInit

CallsNext == Next \/ HelperNext

CallsSpec == CallsInit /\ [][CallsNext]_vars

(***************************************************************************)
(* Properties                                                              *)
(***************************************************************************)
\* The call is past select_best_by_id_similarity and before the fallback.
AfterSelect == pc = "fallback"

\* The call is past the fallback stage and before the injection.
AfterFallback == pc = "inject"

\* The similarity of the i-th result.
ScoreAt(i) == scores[i]

\* The place and the similarity of every result.
PlaceScores == {<<i, ScoreAt(i)>> : i \in DOMAIN results}

\* The default knowledge base holds the line.
KbHolds(line) ==
  /\ semantic_where = NoWhere
  /\ fs[KB_DEFAULT_PATH].exists
  /\ \E i \in DOMAIN fs[KB_DEFAULT_PATH].lines :
       Strip(fs[KB_DEFAULT_PATH].lines[i]) = line

\* No result has a header id that shares a word with the query.
NoRelevantCandidate ==
  \A i \in DOMAIN results :
    Range(Words(CandidateId(results[i]))) \cap Range(msg_tokens) = {}

C1_Scenario ==
  /\ message = MsgPepUp
  /\ KbHolds(PepUpLine)
  /\ NoRelevantCandidate

\* C1: with the line "Item - Pep-Up Plant - Locations: X: here" in the
\* knowledge base, the query "Information about the Item Pep-Up Plant" and a
\* search that returns no relevant candidate, the call ends with that line
\* as context, score 1.0, and injects exactly that line.
C1_PepUpFallback ==
  (pc \in {"inject", "done"} /\ C1_Scenario) =>
    /\ context = PepUpLine
    /\ best_score = ScoreOne
    /\ pc = "done" => added = <<[prompt |-> DefaultPrompt, context |-> PepUpLine]>>

C1_Witness ==
  /\ pc = "done"
  /\ C1_Scenario
  /\ results # <<>>
  /\ fallback.attempted
  /\ added = <<[prompt |-> DefaultPrompt, context |-> PepUpLine]>>

\* The queries that name a category marker and an identifier, each with the
\* knowledge-base line of that category and identifier.
QueryTargets ==
  {<<MsgPepUp, PepUpLine>>, <<MsgMoveIceBeam, IceBeamLine>>,
   <<MsgPokemonOnix, OnixLine>>, <<MsgPokemonPiplup, PiplupLine>>}

\* C2: for every query naming a category marker and an identifier whose
\* line is in the knowledge base, when the results do not contain that
\* record, the context after the fallback stage is that line and the score
\* is 1.0, whatever else the results contain.
C2_FallbackRecoversTarget ==
  \A qt \in QueryTargets :
    ( /\ AfterFallback
      /\ message = qt[1]
      /\ KbHolds(qt[2])
      /\ \A i \in DOMAIN results : Strip(TextOf(results[i])) # qt[2] )
    => (context = qt[2] /\ best_score = ScoreOne)

\* C3: the candidate the scorer returns has the maximum similarity of the
\* list and the returned score is that maximum, whatever the distances; for
\* "move ice beam" with the Ice Beam and the Ice Punch line among the
\* results, the Ice Beam line is returned.
C3_MaxScoreWins ==
  AfterSelect =>
    /\ results # <<>> =>
         /\ best_index \in DOMAIN results
         /\ best = results[best_index]
         /\ <<best_index, best_score>> \in PlaceScores
         /\ \A ps \in PlaceScores : ~FracLess(best_score, ps[2])
    /\ ( /\ normalized_msg = Lower(MsgMoveIceBeam)
         /\ {results[i].text : i \in DOMAIN results} = {IceBeamLine, IcePunchLine} )
       => best.text = IceBeamLine

C3_Witness ==
  /\ AfterSelect
  /\ normalized_msg = Lower(MsgMoveIceBeam)
  /\ results = <<[text |-> IceBeamLine, distance |-> 2],
                 [text |-> IcePunchLine, distance |-> 1]>>
  /\ best.text = IceBeamLine
  /\ best_score = ScoreOne

\* C4: the exact-lookup fallback is attempted exactly when a category flag
\* is set and the scorer's score is below 0.98 or no candidate was selected.
C4_FallbackGuard ==
  AfterFallback =>
    ( fallback.attempted <=>
        /\ wants.wants_item \/ wants.wants_pokemon \/ wants.wants_move
        /\ FracLess(scorer.score, <<49, 50>>) \/ best_index = 0 )

C4_Witness ==
  /\ AfterFallback
  /\ fallback.attempted
  /\ wants.wants_move
  /\ best_index # 0
  /\ FracLess(scorer.score, <<49, 50>>)

\* C5: after the fallback stage (context, score) is (the line found, 1.0)
\* when find_exact_kb_line returned a line, and else the scorer's pair.
C5_FallbackFrame ==
  AfterFallback =>
    IF fallback.attempted /\ fallback.exact_line # None
      THEN context = fallback.exact_line /\ best_score = ScoreOne
      ELSE /\ context = scorer.context
           /\ best_score = scorer.score
           /\ context = (IF best_index = 0 THEN None ELSE TextOf(results[best_index]))
           /\ best_index # 0 => best_score = ScoreAt(best_index)

C5_Witness ==
  /\ AfterFallback
  /\ fallback.attempted
  /\ fallback.exact_line = None
  /\ best_index # 0
  /\ context = TextOf(results[best_index])
  /\ best_score = ScoreAt(best_index)

\* The queries that are exactly the identifier of a line, in some letter
\* case, each with the line.
IdQueries == {<<MsgIceBeamUpper, IceBeamLine>>, <<PokeBall, PokeBallLine>>}

\* C6: when the query is exactly the identifier of a line that is among
\* the results, that candidate has similarity 1.0 and the scorer returns
\* score 1.0.
C6_ExactIdScoresOne ==
  \A iq \in IdQueries :
    (AfterSelect /\ message = iq[1]) =>
      /\ \A i \in DOMAIN results :
           results[i].text = iq[2] => ScoreAt(i) = ScoreOne
      /\ (\E i \in DOMAIN results : results[i].text = iq[2]) =>
           best_score = ScoreOne

\* The text of the item has fewer than two fields separated by " - ".
Headerless(item) == Len(Split(Strip(TextOf(item)), KB_HEADER_SEP)) < 2

\* C7: on an empty list the scorer returns (None, -1.0); on a list without
\* any identifiable header it returns the first candidate with score 0.0,
\* whatever the distances.
C7_EmptyAndHeaderless ==
  AfterSelect =>
    /\ results = <<>> => (best_index = 0 /\ best_score = ScoreSentinel)
    /\ (results # <<>> /\ \A i \in DOMAIN results : Headerless(results[i])) =>
         (best_index = 1 /\ best = results[1] /\ best_score = ScoreZero)

\* a is nearer than b, a missing distance being +infinity
Nearer(a, b) == a # NoDistance /\ (b = NoDistance \/ a < b)

\* The places of the results with the maximum similarity.
TopPlaces ==
  {ps[1] : ps \in {x \in PlaceScores : \A y \in PlaceScores : ~FracLess(x[2], y[2])}}

C9_MalformedOnlyByFallback ==
  AfterSelect =>
    /\ \A i \in DOMAIN results : Headerless(results[i]) => ScoreAt(i) = ScoreZero
    /\ (best_index # 0 /\ Headerless(best)) =>
         \A ps \in PlaceScores : ~FracLess(ScoreSentinel, ps[2])

\* The token is a lead-in token, in any letter case.
IsLeadIn(token) == Lower(token) \in Range(LEAD_IN_TOKENS)

\* The tail without its leading lead-in tokens, whole tokens only.
RECURSIVE DropLeadInTokens(_)
DropLeadInTokens(tokens) ==
  IF tokens # <<>> /\ IsLeadIn(Head(tokens)) THEN DropLeadInTokens(Tail(tokens))
  ELSE tokens

\* The text after the first category marker of the message.
MarkerTail == Strip(SliceFrom(normalized_msg, MarkerSearchEnd(normalized_msg)))

\* C10: the probable id is the text after the first category marker with
\* its leading lead-in tokens removed, whole tokens only; it never starts
\* with a lead-in token; "information about the item pep-up plant" gives
\* "pep-up plant".
C10_WholeLeadInTokens ==
  (AfterFallback /\ fallback.attempted /\ MarkerSearchEnd(normalized_msg) # -1) =>
    /\ Words(MarkerTail) # <<>> =>
         /\ fallback.probable_id # None
         /\ Words(fallback.probable_id) = DropLeadInTokens(Words(MarkerTail))
         /\ ~IsLeadIn(Head(Words(fallback.probable_id)))
    /\ normalized_msg = Lower(MsgPepUp) => fallback.probable_id = Lower(PepUpPlant)


\* A direct call of the helper fn has returned.
Returned(fn) == call.fn = fn /\ ret.returned

\* The category marker of the leftmost whole-word match in s (there is one).
FirstMarker(s) ==
  LET end == MarkerSearchEnd(s)
      ks  == {k \in 1..Len(CATEGORY_TOKENS) :
                /\ end - Len(CATEGORY_TOKENS[k]) + 1 >= 1
                /\ MarkerMatchesAt(s, end - Len(CATEGORY_TOKENS[k]) + 1, CATEGORY_TOKENS[k])}
  IN  CATEGORY_TOKENS[CHOOSE k \in ks : \A j \in ks : k <= j]

\* C11: the category marker extract_probable_id returns is the marker that
\* occurs first in the normalized query, the one after which the probable
\* id is taken.
C11_MarkerIsFirstInQuery ==
  (Returned("extract_probable_id") /\ ret.value.cat_tok # None) =>
    /\ MarkerSearchEnd(call.normalized_msg) # -1
    /\ ret.value.cat_tok = FirstMarker(call.normalized_msg)

\* Some token, raw or stripped of punctuation, is a category marker.
SomeTokenIsMarker(tokens) ==
  \E i \in DOMAIN tokens :
    \/ tokens[i] \in Range(CATEGORY_TOKENS)
    \/ StripPunct(tokens[i]) \in Range(CATEGORY_TOKENS)

NoneNone == [probable_id |-> None, cat_tok |-> None]

\* C12 (as the code has it): extract_probable_id returns (None, None) if and
\* only if no token of the token list, raw or stripped of the punctuation
\* characters, is a category marker; when one is, the normalized string has a
\* whole-word occurrence of a marker and the id is what follows it.
C12_TokenListDecides ==
  Returned("extract_probable_id") =>
    /\ ret.value = NoneNone <=> ~SomeTokenIsMarker(call.msg_tokens)
    /\ ret.value # NoneNone =>
         /\ ret.value.cat_tok \in Range(CATEGORY_TOKENS)
         /\ MarkerSearchEnd(call.normalized_msg) # -1

C12_Witness ==
  /\ Returned("extract_probable_id")
  /\ call.normalized_msg = Lower(MsgPepItem)
  /\ MarkerSearchEnd(call.normalized_msg) # -1
  /\ ret.value = NoneNone

\* C12 (as stated): extract_probable_id returns (None, None) if and only if
\* the normalized string has no whole-word occurrence of a category marker.
C12_WholeWordScanDecides ==
  Returned("extract_probable_id") =>
    (ret.value = NoneNone <=> MarkerSearchEnd(call.normalized_msg) = -1)

\* C13: with the tokens stripped of the punctuation characters, wants_item
\* holds iff some token is "item", wants_pokemon iff some is "pokemon" or
\* "pokemon" with U+00E9, wants_move iff some is "move" or "moves"; allowed
\* is the set of the categories whose flag holds.
C13_IntentFlags ==
  Returned("intent_from_tokens") =>
    LET stripped == {StripPunct(call.msg_tokens[i]) : i \in DOMAIN call.msg_tokens}
        v == ret.value
    IN  /\ v.wants_item <=> <<"i","t","e","m">> \in stripped
        /\ v.wants_pokemon <=> (<<"p","o","k","e","m","o","n">> \in stripped \/ PokemonAccented \in stripped)
        /\ v.wants_move <=> (<<"m","o","v","e">> \in stripped \/ <<"m","o","v","e","s">> \in stripped)
        /\ v.allowed = {c \in {"item", "pokemon", "move"} :
                          \/ c = "item" /\ v.wants_item
                          \/ c = "pokemon" /\ v.wants_pokemon
                          \/ c = "move" /\ v.wants_move}

C13_Witness ==
  /\ Returned("intent_from_tokens")
  /\ call.msg_tokens = <<<<"p","o","k","e","m","o","n">> \o <<":">>, <<",">> \o <<"m","o","v","e","s">> \o <<",">> >>
  /\ ~ret.value.wants_item
  /\ ret.value.wants_pokemon
  /\ ret.value.wants_move
  /\ ret.value.allowed = {"pokemon", "move"}

\* C14: normalizing the normalized string of a message gives the same
\* normalized string and tokens as normalizing the message.
C14_Idempotent ==
  Returned("normalize_query_text") =>
    normalize_query_text(ret.value.normalized) = ret.value

\* C15: the normalized string has no two whitespace characters in a row and
\* no accented character, and the tokens are its pieces between spaces, the
\* empty ones left out, in order.
C15_NormalizedShape ==
  Returned("normalize_query_text") =>
    LET n == ret.value.normalized
    IN  /\ \A i \in 1..(Len(n) - 1) : ~(IsSpace(n[i]) /\ IsSpace(n[i + 1]))
        /\ \A i \in DOMAIN n : n[i] \notin {"eacute", "EN", "EM", "BEI"}
        /\ \A i \in DOMAIN n : IsSpace(n[i]) => n[i] = " "
        /\ ret.value.tokens = Words(n)
        /\ call.message \in {None, <<>>, MsgBlank} => ret.value.tokens = <<>>

C15_Witness ==
  /\ Returned("normalize_query_text")
  /\ call.message = MsgPaddedPokeBall
  /\ ret.value.normalized = <<"p","o","k","e"," ","b","a","l","l">>
  /\ ret.value.tokens = <<<<"p","o","k","e">>, <<"b","a","l","l">>>>

\* C16: every em dash and en dash of the message becomes " - ":
\* "Item -- Pep-Up Plant" with an em dash normalizes to "item - pep-up plant"
\* with the tokens item, -, pep-up, plant, and a marker glued to a long dash
\* becomes a token of its own.
C16_LongDashes ==
  Returned("normalize_query_text") =>
    /\ call.message = MsgItemDashPepUp =>
         /\ ret.value.normalized = <<"i","t","e","m"," ","-"," ","p","e","p","-","u","p"," ","p","l","a","n","t">>
         /\ ret.value.tokens = <<<<"i","t","e","m">>, <<"-">>, <<"p","e","p","-","u","p">>, <<"p","l","a","n","t">>>>
    /\ call.message \in {MsgItemGluedEm, MsgItemGluedEn} =>
         /\ ret.value.tokens = <<<<"i","t","e","m">>, <<"-">>, <<"o","n","i","x">>>>


\* "<kb_header> -- <probable_id stripped and lowercased> --", the dashes being
\* em dashes.
WantedPrefix(kb_header, probable_id) ==
  kb_header \o <<" ", "EM", " ">> \o Lower(Strip(probable_id)) \o <<" ", "EM">>

\* The places of the lines of the call's file whose trimmed, lowercased form
\* starts with the wanted prefix.
MatchingPlaces ==
  {i \in DOMAIN call.file.lines :
     StartsWith(Lower(Strip(call.file.lines[i])),
                WantedPrefix(call.kb_header, call.probable_id))}

\* The call of find_exact_kb_line has returned from a scan of a file that
\* could be opened and read.
Scanned ==
  /\ Returned("find_exact_kb_line")
  /\ call.probable_id \notin {None, <<>>}
  /\ call.file.exists
  /\ Undecodable \notin Range(call.file.lines)

\* C17: find_exact_kb_line returns the first line in file order whose
\* trimmed, lowercased form starts with the wanted prefix, trimmed and in
\* its own casing; later lines of the same category and id are not returned.
C17_FirstMatchingLine ==
  (Scanned /\ MatchingPlaces # {}) =>
    \E i \in MatchingPlaces :
      /\ \A j \in MatchingPlaces : i <= j
      /\ ret.value = Strip(call.file.lines[i])

C17_Witness ==
  /\ Scanned
  /\ call.file = DupFile
  /\ call.probable_id = PaddedIceBeam
  /\ Cardinality(MatchingPlaces) = 3
  /\ ret.value = Lower(KbLine(Move, IceBeam, <<"f","i","r","s","t">>))

\* C18: find_exact_kb_line returns None without opening the file when
\* probable_id is None or empty, and returns None when the file cannot be
\* opened, when reading it fails, and when no line matches after a full scan.
C18_NoneCases ==
  Returned("find_exact_kb_line") =>
    /\ call.probable_id \in {None, <<>>} => (ret.value = None /\ io = <<>>)
    /\ ~call.file.exists => ret.value = None
    /\ Undecodable \in Range(call.file.lines) => ret.value = None
    /\ (Scanned /\ MatchingPlaces = {}) => ret.value = None

C18_Witness ==
  /\ Returned("find_exact_kb_line")
  /\ call.probable_id = <<>>
  /\ call.file = DupFile
  /\ ret.value = None
  /\ io = <<>>

\* The line without its line end.
Content(line) ==
  IF line # <<>> /\ line[Len(line)] = "NL" THEN SubSeq(line, 1, Len(line) - 1) ELSE line

\* "<Category> -- <Id> -- <Body>": one space on each side of each em dash, a
\* body, no leading whitespace.
InGrammar(content) ==
  LET parts == Split(content, <<" ", "EM", " ">>)
  IN  /\ Len(parts) >= 3
      /\ \A k \in 1..3 : parts[k] # <<>> /\ Strip(parts[k]) = parts[k]

C20_NoCandidatesNoLine ==
  (pc = "done" /\ results = <<>> /\ fallback.exact_line = None) =>
    /\ added = <<>>
    /\ stdout = <<NoContextMessage>>

C20_Witness ==
  /\ pc = "done"
  /\ results = <<>>
  /\ fallback.attempted
  /\ fallback.exact_line = None
  /\ added = <<>>
  /\ stdout = <<NoContextMessage>>

\* C20 (as stated): when the search returns no candidates, add_context is
\* not called and the message that no context was added is printed.
C20_NoCandidatesNoContext ==
  (pc = "done" /\ results = <<>>) =>
    /\ added = <<>>
    /\ stdout = <<NoContextMessage>>

\* The second of two calls with the same arguments has ended.
SecondCallDone == pc = "done" /\ prior.recorded

\* The contexts the second call added.
AddedBySecondCall == SubSeq(added, prior.added + 1, Len(added))

\* The contexts the first call added.
AddedByFirstCall == SubSeq(added, 1, prior.added)

C22_AtMostTwoIO ==
  /\ pc = "query" => io = <<>>
  /\ pc \in {"normalize", "select", "fallback"} => io = <<"search">>
  /\ pc \in {"inject", "done"} => io \in {<<"search">>, <<"search", "scan">>}

C22_Witness ==
  /\ pc = "done"
  /\ io = <<"search", "scan">>
  /\ fallback.attempted

\* The message has been normalized and its intent classified.
Classified == pc \in {"select", "fallback", "inject", "done"}

\* C23: the external search is invoked only after the query has been
\* normalized and its intent classified.
C23_SearchAfterClassify == "search" \in Range(io) => Classified

\* item before pokemon before move; move when no flag is set.
HeaderByPriority(wants_item, wants_pokemon, wants_move) ==
  IF wants_item THEN CATEGORY_TOKENS[1]
  ELSE IF wants_pokemon THEN CATEGORY_TOKENS[2]
  ELSE CATEGORY_TOKENS[4]

\* C24: kb_header_from_flags returns "item" when wants_item, else "pokemon"
\* when wants_pokemon, else "move", and the fallback of the orchestrator looks
\* for lines of that category.
C24_HeaderPriority ==
  /\ Returned("kb_header_from_flags") =>
       ret.value = HeaderByPriority(call.wants_item, call.wants_pokemon, call.wants_move)
  /\ fallback.attempted =>
       /\ fallback.kb_header =
            HeaderByPriority(wants.wants_item, wants.wants_pokemon, wants.wants_move)
       /\ fallback.exact_line # None =>
            StartsWith(Lower(fallback.exact_line), fallback.kb_header \o KB_HEADER_SEP)

C24_Witness ==
  /\ fallback.attempted
  /\ ~wants.wants_item
  /\ wants.wants_pokemon
  /\ wants.wants_move
  /\ fallback.kb_header = CATEGORY_TOKENS[2]

\* The filter is a dict whose doc_name is a str that is not empty.
NamesDocument(w) ==
  /\ IsDict(w)
  /\ "doc_name" \in DOMAIN w
  /\ IsStr(w.doc_name)
  /\ w.doc_name.str # ""

\* C25: resolve_kb_path does no I/O and returns "data/processed/<doc_name>"
\* for a dict whose doc_name is a str that is not empty, and the default
\* path for every other filter.
C25_PathUnderProcessed ==
  Returned("resolve_kb_path") =>
    /\ io = <<>>
    /\ ret.value = IF NamesDocument(call.semantic_where)
                     THEN "data/processed/" \o call.semantic_where.doc_name.str
                     ELSE KB_DEFAULT_PATH

\* discuss_document was called with neither doc_name nor semantic_where.
NeitherGiven == call.doc_name = NoDocName /\ call.semantic_where = NoWhere

\* C26: discuss_document raises ValueError, searches nothing and adds no
\* context when doc_name and semantic_where are both None; otherwise it calls
\* semantically_contextualize once, with the semantic_where given, or with
\* {"doc_name": doc_name} when only doc_name was given.
C26_DiscussDocument ==
  pc # "discuss" =>
    IF NeitherGiven
      THEN /\ pc = "raised"
           /\ ret.raised = "ValueError"
           /\ calls = <<>>
           /\ io = <<>>
           /\ added = <<>>
      ELSE /\ pc # "raised"
           /\ ~ret.returned
           /\ Len(calls) = 1
           /\ calls[1].message = message
           /\ calls[1].semantic_where = semantic_where
           /\ semantic_where = IF call.semantic_where # NoWhere
                                 THEN call.semantic_where
                                 ELSE [doc_name |-> call.doc_name]

C26_Witness ==
  /\ pc = "done"
  /\ call.doc_name # NoDocName
  /\ call.semantic_where = [index |-> PyInt(0)]
  /\ calls = <<[message |-> message, semantic_where |-> [index |-> PyInt(0)]]>>
  /\ "scan" \in Range(io)

\* C27: a call of semantically_contextualize calls add_context once when the
\* search returned a candidate or the fallback found a line, and not at all
\* otherwise; the score it ends with is -1.0 exactly when no context was
\* added, and lies between 0.0 and 1.0 when one was.
C27_AtMostOneContext ==
  /\ Len(added) <= 1
  /\ pc = "done" =>
       /\ Len(added) = IF results # <<>> \/ ~Falsy(fallback.exact_line) THEN 1 ELSE 0
       /\ best_score = ScoreSentinel <=> added = <<>>
       /\ added # <<>> =>
            /\ ~FracLess(best_score, ScoreZero)
            /\ ~FracLess(ScoreOne, best_score)

C27_Witness ==
  /\ pc = "done"
  /\ results = <<>>
  /\ ~Falsy(fallback.exact_line)
  /\ Len(added) = 1
  /\ added[1].context = fallback.exact_line
  /\ best_score = ScoreOne

\* C28: a call with semantic_debug set and a call without it, for the same
\* message, results, file and prompt, make the same add_context call or
\* none, and end with the same score.
C28_DebugDoesNotMatter ==
  (SecondCallDone /\ semantic_debug # prior.semantic_debug) =>
    /\ AddedBySecondCall = AddedByFirstCall
    /\ best_score = prior.best_score

C28_Witness ==
  /\ SecondCallDone
  /\ semantic_debug
  /\ ~prior.semantic_debug
  /\ Len(AddedBySecondCall) = 1
  /\ AddedBySecondCall = AddedByFirstCall
  /\ \E i \in DOMAIN stdout : stdout[i] = [text |-> "Context text:", context |-> context]

\* The orders the results can be put in: the bijections on their places.
Orders ==
  {p \in [DOMAIN results -> DOMAIN results] :
     \A i, j \in DOMAIN results : p[i] = p[j] => i = j}

\* The candidate and the score the loop returns for the results in order p;
\* every candidate keeps the score it has.
BestInOrder(p) ==
  LET rs == [i \in DOMAIN results |-> results[p[i]]]
      ss == [i \in DOMAIN results |-> scores[p[i]]]
      r  == SelectLoop(rs, ss, 1, <<0, ScoreSentinel>>)
      at == IF r[1] = 0 /\ rs # <<>> THEN 1 ELSE r[1]
  IN  [best |-> IF at = 0 THEN NoItem ELSE rs[at], best_score |-> r[2]]

\* Two results at different places have the same score and the same
\* distance (or no distance both).
DoubleTie ==
  \E i, j \in DOMAIN results :
    /\ i # j
    /\ scores[i] = scores[j]
    /\ results[i].distance = results[j].distance

CategoryOf(cat_tok) ==
  IF cat_tok = CATEGORY_TOKENS[1] THEN CATEGORY_TOKENS[1]
  ELSE IF cat_tok \in {CATEGORY_TOKENS[2], CATEGORY_TOKENS[3]} THEN CATEGORY_TOKENS[2]
  ELSE CATEGORY_TOKENS[4]

\* The classifier and the extractor agree on a normalized message: a
\* category token is found exactly when a flag is set, it stands for the
\* header of the flags, and the regular expression finds a marker.
Agree(normalized, tokens, cat_tok) ==
  \A w \in {intent_from_tokens(tokens)} :
    /\ cat_tok # None <=> (w.wants_item \/ w.wants_pokemon \/ w.wants_move)
    /\ cat_tok # None =>
         /\ CategoryOf(cat_tok) =
              kb_header_from_flags(w.wants_item, w.wants_pokemon, w.wants_move)
         /\ MarkerSearchEnd(normalized) # -1

\* C30: on the token lists normalize_query_text produces, extract_probable_id
\* returns a category token exactly when intent_from_tokens sets a flag, the
\* token stands for the header kb_header_from_flags gives for the flags, and
\* the marker is found by the regular expression, not by str.find; so it is
\* in every fallback of the orchestrator.
C30_ClassifierAndExtractorAgree ==
  /\ Returned("extract_probable_id") =>
       Agree(call.normalized_msg, call.msg_tokens, ret.value.cat_tok)
  /\ fallback.attempted =>
       /\ Agree(normalized_msg, msg_tokens, CategoryTokenUsed(msg_tokens))
       /\ CategoryTokenUsed(msg_tokens) # None
       /\ CategoryOf(CategoryTokenUsed(msg_tokens)) = fallback.kb_header

C30_Witness ==
  /\ Returned("extract_probable_id")
  /\ ret.value.cat_tok = CATEGORY_TOKENS[2]
  /\ CATEGORY_TOKENS[5] \in Range(call.msg_tokens)
  /\ Agree(call.normalized_msg, call.msg_tokens, ret.value.cat_tok)

=============================================================================
